---- MODULE Spec2Model ----
(***************************************************************************)
(* Loan application API: the create (submit) workflow of                   *)
(* LoanApplicationViewSet with its applicant upsert, risk scoring and      *)
(* auto-decision, the update_status action, and RiskScoringService with    *)
(* its mock, live and fallback strategies.                                 *)
(*                                                                         *)
(* Python dicts (request.data, applicant_data) are records whose DOMAIN is *)
(* the set of keys present.  A nullable column holds <<>> for NULL and     *)
(* <<v>> for the value v.  Database rows are records kept in sequences in  *)
(* insertion order.                                                        *)
(***************************************************************************)
EXTENDS Integers, Sequences, FiniteSets, TLC

(***************************************************************************)
(* Bounds and input universes                                              *)
(***************************************************************************)
\* number of applications the store may hold
MaxApplications == 2

\* e-mail addresses of the workflow's requests, and of the scoring study
Emails == {"new@x.com", "ann@gmail.com"}
MockEmails == Emails \cup {"bob@mit.edu", "Ann@Gmail.com"}
\* names and phones a request may carry
Names == {"Ann Lee"}
MockNames == Names \cup {"Ann", ""}
Phones == {"555"}
\* amounts a request may carry (0 is the falsy JSON amount)
Amounts == {50, 5000}
MockAmounts == Amounts \cup {1250, 30000}
MockPhones == Phones \cup {"777"}
\* values the provider may put in the score field of its JSON answer
LiveScores == {29, 30, 70, 71, 150}
\* the outcomes of a call to a provider that is down
DownOutcomes == {"timeout", "connection", "http_error"}
\* status values a PATCH body may carry
PatchStatuses == {"approved", "pending", "manual_review", "bogus"}

(***************************************************************************)
(* models.py                                                               *)
(***************************************************************************)
STATUS_PENDING == "pending"
STATUS_APPROVED == "approved"
STATUS_REJECTED == "rejected"
STATUS_MANUAL_REVIEW == "manual_review"
STATUS_CHOICES == {STATUS_PENDING, STATUS_APPROVED, STATUS_REJECTED, STATUS_MANUAL_REVIEW}
\* the bound of MinValueValidator on LoanApplication.amount
MinAmount == 100

Null == <<>>
Some(v) == <<v>>

(***************************************************************************)
(* Python dict and str primitives                                          *)
(***************************************************************************)
Has(d, k) == k \in DOMAIN d
Get(d, k, default) == IF k \in DOMAIN d THEN d[k] ELSE default
\* truthiness of a dict and of a str
Truthy(d) == DOMAIN d # {}
NonEmpty(s) == s # ""

\* str.lower() on the addresses of the universe
Lower(s) ==
  CASE s = "Ann@Gmail.com" -> "ann@gmail.com"
    [] OTHER -> s

\* `domain in email` on the lower-cased addresses of the universe
Contains(email, domain) ==
  \/ email = "ann@gmail.com" /\ domain = "gmail.com"
  \/ email = "bob@mit.edu" /\ domain = ".edu"

\* str.split() on the names of the universe
Split(name) ==
  CASE name = "" -> <<>>
    [] name = "Ann" -> <<"Ann">>
    [] name = "Ann Lee" -> <<"Ann", "Lee">>

\* hashlib.md5(s.encode()).hexdigest()[:8] on the input strings of the universe
Md5Hex8(s) ==
  CASE s = "new@x.com50" -> "a3e99a7c"
    [] s = "new@x.com1250" -> "7ae986bf"
    [] s = "new@x.com5000" -> "89b1ebb7"
    [] s = "new@x.com30000" -> "84879c74"
    [] s = "ann@gmail.com50" -> "d9199886"
    [] s = "ann@gmail.com1250" -> "1ac787ae"
    [] s = "ann@gmail.com5000" -> "aa507f1c"
    [] s = "ann@gmail.com30000" -> "4637cfba"
    [] s = "bob@mit.edu50" -> "52361b38"
    [] s = "bob@mit.edu1250" -> "cb68eada"
    [] s = "bob@mit.edu5000" -> "da1622aa"
    [] s = "bob@mit.edu30000" -> "69850cfe"
    [] s = "Ann@Gmail.com50" -> "13372e7a"
    [] s = "Ann@Gmail.com1250" -> "fe38964a"
    [] s = "Ann@Gmail.com5000" -> "8d084ba5"
    [] s = "Ann@Gmail.com30000" -> "5927c442"

\* the first draws of random.randint(-12, 12) after random.seed(int(h, 16))
RandomStream(h) ==
  CASE h = "a3e99a7c" -> <<-2, -6, -2, -8>>
    [] h = "7ae986bf" -> <<2, -1, -5, 4>>
    [] h = "89b1ebb7" -> <<-1, 7, -1, -9>>
    [] h = "84879c74" -> <<11, 7, 12, -11>>
    [] h = "d9199886" -> <<-9, 8, -11, 4>>
    [] h = "1ac787ae" -> <<-9, 5, -3, 5>>
    [] h = "aa507f1c" -> <<-1, 9, 9, -1>>
    [] h = "4637cfba" -> <<-12, 9, -10, 6>>
    [] h = "52361b38" -> <<10, 2, 0, -2>>
    [] h = "cb68eada" -> <<-3, 1, -5, -8>>
    [] h = "da1622aa" -> <<-10, 3, 8, -9>>
    [] h = "69850cfe" -> <<12, -2, -12, 6>>
    [] h = "13372e7a" -> <<0, -9, 11, -7>>
    [] h = "fe38964a" -> <<2, 8, 0, 7>>
    [] h = "8d084ba5" -> <<1, -2, -10, 5>>
    [] h = "5927c442" -> <<-11, 4, 5, 0>>
    [] OTHER -> <<-12, -5, 2, 9>>

\* state of the module-level generator of `random`: the seed it was last
\* given and the number of draws made since
UnseededRandom == [seed |-> "os", drawn |-> 0]
\* random.seed(seed) forgotten: the generator keeps its state
KeepRandomState(state, h) == state
\* random.seed(seed)
SeedRandom(state, h) == [seed |-> h, drawn |-> 0]
\* random.randint(-12, 12): the value drawn and the generator afterwards
RandInt(state) ==
  [value |-> RandomStream(state.seed)[(state.drawn % 4) + 1],
   state |-> [state EXCEPT !.drawn = (state.drawn + 1) % 4]]

\* round(num / den) for num >= 0, ties to the even integer
RoundHalfEven(num, den) ==
  LET q == num \div den
      r == num % den
  IN  IF 2 * r < den THEN q
      ELSE IF 2 * r > den THEN q + 1
      ELSE IF q % 2 = 0 THEN q ELSE q + 1

Min(a, b) == IF a <= b THEN a ELSE b
Max(a, b) == IF a >= b THEN a ELSE b

(***************************************************************************)
(* services.py: RiskScoringService                                         *)
(***************************************************************************)
FreeMailDomains == {"gmail.com", "yahoo.com", "hotmail.com"}
InstitutionalDomains == {".edu", ".gov", ".org"}

\* Factor 2 of _calculate_mock_score: the e-mail domain analysis
EmailRisk(applicant_data) ==
  LET email == Lower(Get(applicant_data, "email", ""))
  IN  IF ~NonEmpty(email) THEN 0
      ELSE IF \E domain \in FreeMailDomains : Contains(email, domain) THEN 5
      ELSE IF \E domain \in InstitutionalDomains : Contains(email, domain) THEN -8
      ELSE 0

\* Factor 3 of _calculate_mock_score: the name completeness
NameRisk(applicant_data) ==
  LET name == Get(applicant_data, "name", "")
  IN  IF NonEmpty(name) /\ Len(Split(name)) >= 2 THEN -4 ELSE 0

\* _calculate_mock_score: the score and the generator it leaves behind.
\* base_score is kept in units of 1/10000, in which amount_risk =
\* min(25, amount / 10000 * 12) is the integer min(250000, 12 * amount).
_calculate_mock_score(applicant_data, loan_amount, random) ==
  LET input_string == Get(applicant_data, "email", "") \o ToString(loan_amount)
      seeded == SeedRandom(random, Md5Hex8(input_string))
      amount_risk == Min(250000, 12 * loan_amount)
      draw == RandInt(seeded)
      base_score == 10000 * (50 + EmailRisk(applicant_data) + NameRisk(applicant_data)
                             + draw.value) + amount_risk
  IN  [score |-> Max(0, Min(100, RoundHalfEven(base_score, 10000))),
       random |-> draw.state]

\* _calculate_fallback_score
_calculate_fallback_score(applicant_data, loan_amount) == 50

\* the network-layer failures alone
NetworkFailures == {"Timeout", "ConnectionError"}
\* requests.exceptions: the classes derived from RequestException that
\* requests.post and raise_for_status raise
RequestExceptions == {"Timeout", "ConnectionError", "HTTPError"}

\* _call_external_api on one behaviour of the provider: requests.post raises
\* on a network failure, raise_for_status raises HTTPError on an error
\* status, otherwise the JSON body is returned
_call_external_api(live) ==
  CASE live.outcome = "timeout" -> [raised |-> TRUE, exc |-> "Timeout", json |-> <<>>]
    [] live.outcome = "connection" -> [raised |-> TRUE, exc |-> "ConnectionError", json |-> <<>>]
    [] live.outcome = "http_error" -> [raised |-> TRUE, exc |-> "HTTPError", json |-> <<>>]
    [] live.outcome = "ok" -> [raised |-> FALSE, exc |-> "", json |-> [score |-> live.score]]
    [] live.outcome = "no_score" -> [raised |-> FALSE, exc |-> "", json |-> [detail |-> "n/a"]]

\* get_risk_score: the mock strategy when settings select it, else the live
\* call, whose RequestException is answered by the fallback score; any other
\* exception (KeyError of response['score']) leaves the function
get_risk_score(applicant_data, loan_amount, use_mock, live, random) ==
  IF use_mock
  THEN LET m == _calculate_mock_score(applicant_data, loan_amount, random)
       IN  [raised |-> FALSE, exc |-> "", score |-> m.score, random |-> m.random,
            source |-> "mock"]
  ELSE LET response == _call_external_api(live)
       IN  IF response.raised
           THEN IF response.exc \in RequestExceptions
                THEN [raised |-> FALSE, exc |-> "",
                      score |-> _calculate_fallback_score(applicant_data, loan_amount),
                      random |-> random, source |-> "fallback"]
                ELSE [raised |-> TRUE, exc |-> response.exc, score |-> 0,
                      random |-> random, source |-> "live"]
           ELSE IF Has(response.json, "score")
                THEN [raised |-> FALSE, exc |-> "", score |-> response.json.score,
                      random |-> random, source |-> "live"]
                ELSE [raised |-> TRUE, exc |-> "KeyError", score |-> 0,
                      random |-> random, source |-> "live"]

(***************************************************************************)
(* views.py: the auto-decision of create                                   *)
(***************************************************************************)
\* the decision with the lower threshold taken inclusively
DecideInclusive(risk_score) ==
  IF risk_score <= 30 THEN STATUS_APPROVED
  ELSE IF risk_score > 70 THEN STATUS_REJECTED
  ELSE STATUS_MANUAL_REVIEW

\* the if / elif / else on risk_score
Decide(risk_score) ==
  IF risk_score < 30 THEN STATUS_APPROVED
  ELSE IF risk_score > 70 THEN STATUS_REJECTED
  ELSE STATUS_MANUAL_REVIEW

(***************************************************************************)
(* State                                                                   *)
(***************************************************************************)
VARIABLES
  use_mock,      \* settings.DEBUG and not settings.USE_REAL_RISK_API
  provider,      \* how the external provider answers a scoring request
  amount_sent,   \* the amount that the clients' requests carry
  random,        \* the module-level generator of `random`
  applicants,    \* committed rows of Applicant
  applications,  \* committed rows of LoanApplication
  response,      \* the response last sent; for a create also the body of a
                 \* request answered 201, what the provider did if it was
                 \* called, and the exception that reached the except clause
  updated,       \* per application: has an update_status call succeeded on it
  study          \* two calls of the mock strategy and their results

vars == <<use_mock, provider, amount_sent, random, applicants, applications, response, updated, study>>

EmptyDict == [k \in {} |-> ""]
NoResponse ==
  [op |-> "none", code |-> 0, id |-> 0, body |-> <<>>, data |-> EmptyDict,
   live |-> "none", exc |-> ""]
NoStudy == [a |-> <<>>, b |-> <<>>, scoreA |-> <<>>, scoreB |-> <<>>]

\* bodies of POST /applications/
ApplicantDicts ==
  {[email |-> e, name |-> n, phone |-> p] : e \in Emails, n \in Names, p \in Phones}
  \cup {[email |-> e] : e \in Emails}
  \cup {[name |-> "Ann"], [email |-> ""]}
CreateBodies(amounts) ==
  {[applicant |-> a, amount |-> m] : a \in ApplicantDicts, m \in amounts}
  \cup {[applicant |-> [email |-> e], amount |-> 0] : e \in Emails}
  \cup {[applicant |-> [email |-> e]] : e \in Emails}
  \cup {[applicant |-> EmptyDict, amount |-> m] : m \in amounts}
  \cup {[amount |-> m] : m \in amounts}
\* bodies of PATCH /applications/{id}/update_status/
PatchBodies == {[status |-> st] : st \in PatchStatuses} \cup {[other |-> "x"]}
\* no call of the external provider
NotCalled == [outcome |-> "none", score |-> 0]
\* the provider along one behaviour: it answers with one score, or answers
\* without a score, or is down
Providers ==
  {[outcome |-> "ok", score |-> sc] : sc \in LiveScores}
  \cup {[outcome |-> o, score |-> 0] : o \in {"no_score", "down"}}
\* the answers that one call of a provider may get
Answers(p) ==
  IF p.outcome = "down" THEN {[outcome |-> o, score |-> 0] : o \in DownOutcomes}
  ELSE {p}

Init ==
  /\ use_mock \in BOOLEAN
  /\ provider \in (IF use_mock THEN {NotCalled} ELSE Providers)
  /\ amount_sent \in Amounts
  /\ random = UnseededRandom
  /\ applicants = <<>>
  /\ applications = <<>>
  /\ response = NoResponse
  /\ updated = <<>>
  /\ study = NoStudy

(***************************************************************************)
(* views.py: LoanApplicationViewSet.create                                 *)
(***************************************************************************)
\* request.data.get('applicant', {}) and request.data.get('amount'), the
\* absent amount read as the falsy 0
ApplicantData(data) == Get(data, "applicant", EmptyDict)
AmountOf(data) == Get(data, "amount", 0)

\* the two checks of required fields: the error of the 400 response, or ""
ValidationError(data) ==
  IF ~Truthy(ApplicantData(data)) \/ AmountOf(data) = 0
  THEN "Applicant data and amount are required"
  ELSE IF ~NonEmpty(Get(ApplicantData(data), "email", ""))
  THEN "Email is required in applicant data"
  ELSE ""

\* Applicant.objects.get_or_create(email=..., defaults=...): the row and
\* whether it was created
get_or_create(rows, email, defaults) ==
  IF \E i \in 1..Len(rows) : rows[i].email = email
  THEN [row |-> rows[CHOOSE i \in 1..Len(rows) :
                       /\ rows[i].email = email
                       /\ \A j \in 1..Len(rows) : rows[j].email = email => i <= j],
        created |-> FALSE]
  ELSE [row |-> [id |-> Len(rows) + 1, email |-> email,
                 name |-> defaults.name, phone |-> defaults.phone],
        created |-> TRUE]

\* the update of an existing applicant that never takes the supplied name
UpdateFieldsPhoneOnly(applicant_data, applicant) ==
  IF Has(applicant_data, "phone") /\ applicant_data.phone # applicant.phone
  THEN {"phone"} ELSE {}

\* the fields of an existing applicant that the request changes
UpdateFields(applicant_data, applicant) ==
  (IF Has(applicant_data, "name") /\ applicant_data.name # applicant.name
   THEN {"name"} ELSE {})
  \cup
  (IF Has(applicant_data, "phone") /\ applicant_data.phone # applicant.phone
   THEN {"phone"} ELSE {})

\* the statements of the try block, in order; the last is the return
Steps == <<"upsert", "create", "score", "decide", "save", "respond">>

\* locals and writes of a create request that has completed no statement
NoTx ==
  [applicant |-> <<>>, created |-> FALSE, update_fields |-> {},
   application |-> <<>>, inserted |-> <<>>]

\* get_or_create and the update of an applicant that already existed
Upsert(t, rows, applicant_data) ==
  LET found == get_or_create(rows, applicant_data.email,
                             [name |-> Get(applicant_data, "name", ""),
                              phone |-> Get(applicant_data, "phone", "")])
      update_fields == IF found.created THEN {}
                       ELSE UpdateFields(applicant_data, found.row)
      applicant == [found.row EXCEPT
                      !.name = IF "name" \in update_fields
                               THEN applicant_data.name ELSE @,
                      !.phone = IF "phone" \in update_fields
                                THEN applicant_data.phone ELSE @]
  IN  [t EXCEPT !.applicant = <<applicant>>, !.created = found.created,
                !.update_fields = update_fields]

\* LoanApplication.objects.create(applicant, amount, status=pending): no
\* validator of the model runs on create
CreateApplication(t, rows, amount) ==
  LET application == [id |-> Len(rows) + 1,
                      applicant |-> t.applicant[1].id,
                      amount |-> amount,
                      risk_score |-> Null,
                      status |-> STATUS_PENDING]
  IN  [t EXCEPT !.application = <<application>>, !.inserted = <<application>>]

\* the applicant_data that create hands to get_risk_score
ScoringInput(t) ==
  [name |-> t.applicant[1].name, email |-> t.applicant[1].email,
   phone |-> t.applicant[1].phone]

\* application.risk_score = risk_score
SetRiskScore(t, risk_score) == [t EXCEPT !.application[1].risk_score = Some(risk_score)]

\* the auto-decision on the risk score
SetDecision(t) ==
  [t EXCEPT !.application[1].status = Decide(t.application[1].risk_score[1])]

\* application.save()
Save(t) == [t EXCEPT !.inserted = t.application]

\* locals and writes after the first n statements of the try block, given
\* the result of get_risk_score
TxAfter(n, rows_applicants, rows_applications, data, scored) ==
  LET t1 == Upsert(NoTx, rows_applicants, ApplicantData(data))
      t2 == CreateApplication(t1, rows_applications, AmountOf(data))
      t3 == SetRiskScore(t2, scored.score)
      t4 == SetDecision(t3)
      t5 == Save(t4)
  IN  CASE n = 0 -> NoTx
        [] n = 1 -> t1
        [] n = 2 -> t2
        [] n = 3 -> t3
        [] n = 4 -> t4
        [] n >= 5 -> t5

\* the except clause of create, entered with a logger that is bound: the
\* error is logged and the 500 response returned
ExceptLogsAndReturns(exc) == [raised |-> FALSE, code |-> 500]

\* the except clause of create: views.py binds no name `logger` (it neither
\* imports logging nor defines one), so logger.error raises NameError before
\* the Response is built and the exception leaves create
ExceptClause(exc) == [raised |-> TRUE, code |-> 500]

\* the writes of the open transaction applied to the committed rows
CommitApplicants(rows, t) ==
  IF t.applicant = <<>> THEN rows
  ELSE IF t.created THEN Append(rows, t.applicant[1])
  ELSE [i \in 1..Len(rows) |->
          IF rows[i].id = t.applicant[1].id
          THEN [rows[i] EXCEPT
                  !.name = IF "name" \in t.update_fields
                           THEN t.applicant[1].name ELSE @,
                  !.phone = IF "phone" \in t.update_fields
                            THEN t.applicant[1].phone ELSE @]
          ELSE rows[i]]
CommitApplications(rows, t) ==
  IF t.inserted = <<>> THEN rows ELSE Append(rows, t.inserted[1])

\* transaction.atomic around create: roll back when an exception leaves the
\* function, commit when it returns
AtomicExit(raised, rows, committed) == IF raised THEN rows ELSE committed

\* POST /applications/ with a body that fails the checks of required
\* fields: the 400 response, before the try block
CreateInvalid ==
  /\ \E data \in CreateBodies({amount_sent}) :
       /\ ValidationError(data) # ""
       /\ response' = [NoResponse EXCEPT !.op = "create", !.code = 400]
  /\ UNCHANGED <<use_mock, provider, amount_sent, random, applicants, applications, updated, study>>

\* POST /applications/ with a body that passes them, an unexpected exception
\* (database error, invalid decimal, serializer error) raised by statement
\* number `failing` of the try block (0: by none), and the provider, if the
\* request gets as far as calling it, answering with `live`
Create ==
  /\ Len(applications) < MaxApplications
  /\ \E data \in {d \in CreateBodies({amount_sent}) : ValidationError(d) = ""},
        failing \in 0..Len(Steps) :
     \E live \in (IF failing = 0 \/ failing >= 3 THEN Answers(provider)
                  ELSE {NotCalled}) :
     \E scored \in {IF failing = 0 \/ failing >= 3
                    THEN get_risk_score(
                           ScoringInput(TxAfter(2, applicants, applications, data,
                                                [score |-> 0])),
                           AmountOf(data), use_mock, live, random)
                    ELSE [raised |-> FALSE, exc |-> "", score |-> 0,
                          random |-> random, source |-> "none"]} :
       LET \* the statement that raises, 0 if none does
           raising == IF scored.raised THEN 3 ELSE failing
           exc == IF raising = 0 THEN ""
                  ELSE IF scored.raised THEN scored.exc
                  ELSE "Exception"
           handled == IF raising = 0 THEN [raised |-> FALSE, code |-> 201]
                      ELSE ExceptClause(exc)
       IN  \E t \in {TxAfter(IF raising = 0 THEN Len(Steps) ELSE raising - 1,
                             applicants, applications, data, scored)} :
             /\ random' = scored.random
             /\ applicants' = AtomicExit(handled.raised, applicants,
                                         CommitApplicants(applicants, t))
             /\ applications' = AtomicExit(handled.raised, applications,
                                           CommitApplications(applications, t))
             /\ updated' = IF Len(applications') > Len(applications)
                           THEN Append(updated, FALSE) ELSE updated
             /\ response' =
                  [op |-> "create", code |-> handled.code,
                   id |-> IF raising = 0 THEN t.application[1].id ELSE 0,
                   body |-> IF raising = 0 THEN t.application ELSE <<>>,
                   data |-> IF raising = 0 THEN data ELSE EmptyDict,
                   live |-> live.outcome,
                   exc |-> exc]
  /\ UNCHANGED <<use_mock, provider, amount_sent, study>>

(***************************************************************************)
(* views.py: LoanApplicationViewSet.update_status                          *)
(***************************************************************************)
\* the status guard left out: every application may be updated
MayUpdateAny(application) == TRUE

\* the status guard of update_status
MayUpdate(application) == application.status = STATUS_MANUAL_REVIEW

\* LoanApplicationStatusSerializer.is_valid: status is the only writable
\* field, a choice field that the model's default makes optional
StatusSerializerValid(data) ==
  Has(data, "status") => data.status \in STATUS_CHOICES

\* LoanApplicationStatusSerializer.save: the validated fields are set
StatusSerializerSave(application, data) ==
  IF Has(data, "status") THEN [application EXCEPT !.status = data.status]
  ELSE application

\* PATCH /applications/{id}/update_status/
UpdateStatus ==
  /\ \E id \in 1..(Len(applications) + 1), data \in PatchBodies :
       IF id > Len(applications)
       THEN /\ response' = [NoResponse EXCEPT !.op = "update_status", !.code = 404,
                                              !.id = id]
            /\ UNCHANGED <<applications, updated>>
       ELSE IF ~MayUpdate(applications[id])
       THEN /\ response' = [NoResponse EXCEPT !.op = "update_status", !.code = 400,
                                              !.id = id]
            /\ UNCHANGED <<applications, updated>>
       ELSE IF StatusSerializerValid(data)
       THEN LET saved == StatusSerializerSave(applications[id], data)
            IN  /\ applications' = [applications EXCEPT ![id] = saved]
                /\ updated' = [updated EXCEPT ![id] = TRUE]
                /\ response' = [NoResponse EXCEPT
                                  !.op = "update_status", !.code = 200, !.id = id,
                                  !.body = <<[status |-> saved.status]>>]
       ELSE /\ response' = [NoResponse EXCEPT !.op = "update_status", !.code = 400,
                                              !.id = id]
            /\ UNCHANGED <<applications, updated>>
  /\ UNCHANGED <<use_mock, provider, amount_sent, random, applicants, study>>

Next ==
  \/ CreateInvalid
  \/ Create
  \/ UpdateStatus

Spec == Init /\ [][Next]_vars

(***************************************************************************)
(* Two calls of the mock strategy, with other calls in between             *)
(***************************************************************************)
MockInputs ==
  {[applicant_data |-> [email |-> e, name |-> n, phone |-> p], loan_amount |-> m] :
     e \in MockEmails, n \in MockNames, p \in MockPhones, m \in MockAmounts}
\* the calls made between the two that are compared
OtherInputs ==
  {[applicant_data |-> [email |-> "bob@mit.edu", name |-> "", phone |-> "555"],
    loan_amount |-> m] : m \in {1250, 30000}}

InitMock ==
  /\ use_mock = TRUE
  /\ provider = NotCalled
  /\ amount_sent = 5000
  /\ random = UnseededRandom
  /\ applicants = <<>>
  /\ applications = <<>>
  /\ response = NoResponse
  /\ updated = <<>>
  /\ study \in {[a |-> <<x>>, b |-> <<y>>, scoreA |-> <<>>, scoreB |-> <<>>] :
                  x \in MockInputs, y \in MockInputs}

\* the first call
MockCallA ==
  /\ study.scoreA = <<>>
  /\ LET m == _calculate_mock_score(study.a[1].applicant_data, study.a[1].loan_amount,
                                    random)
     IN  /\ study' = [study EXCEPT !.scoreA = <<m.score>>]
         /\ random' = m.random
  /\ UNCHANGED <<use_mock, provider, amount_sent, applicants, applications, response,
                 updated>>

\* a call on other data after the first
MockCallOther ==
  /\ study.scoreA # <<>>
  /\ study.scoreB = <<>>
  /\ \E x \in OtherInputs :
       random' = _calculate_mock_score(x.applicant_data, x.loan_amount, random).random
  /\ UNCHANGED <<use_mock, provider, amount_sent, applicants, applications, response,
                 updated, study>>

\* the second call
MockCallB ==
  /\ study.scoreA # <<>>
  /\ study.scoreB = <<>>
  /\ LET m == _calculate_mock_score(study.b[1].applicant_data, study.b[1].loan_amount,
                                    random)
     IN  /\ study' = [study EXCEPT !.scoreB = <<m.score>>]
         /\ random' = m.random
  /\ UNCHANGED <<use_mock, provider, amount_sent, applicants, applications, response,
                 updated>>

NextMock ==
  \/ MockCallA
  \/ MockCallOther
  \/ MockCallB

SpecMock == InitMock /\ [][NextMock]_vars

TypeOK ==
  /\ Len(updated) = Len(applications)
  /\ Len(applications) <= MaxApplications

(***************************************************************************)
(* Properties                                                              *)
(***************************************************************************)
\* C1: a create that fails after its body passed validation leaves the
\* committed applicants and applications exactly as they were and is answered
\* with 500: no applicant is added or changed and no application is added.
C1_AllOrNothing ==
  [][(response'.op = "create" /\ response'.code \notin {201, 400})
       => /\ response'.code = 500
          /\ applicants' = applicants
          /\ applications' = applications]_vars

\* a create has failed after the provider had answered with a score
C1_Witness ==
  /\ response.op = "create"
  /\ response.code = 500
  /\ response.live = "ok"
  /\ response.exc = "Exception"

\* C2: a create answered 201 stores one new application and returns it, its
\* status is approved iff score < 30, rejected iff score > 70 and
\* manual_review iff 30 <= score <= 70, and it is not pending.
C2_DecisionMatchesScore ==
  [][(response'.op = "create" /\ response'.code = 201)
       => /\ Len(applications') = Len(applications) + 1
          /\ response'.id = Len(applications')
          /\ response'.body = <<applications'[Len(applications')]>>
          /\ LET application == applications'[Len(applications')]
             IN  /\ application.risk_score # Null
                 /\ application.status # "pending"
                 /\ application.status = "approved" <=> application.risk_score[1] < 30
                 /\ application.status = "rejected" <=> application.risk_score[1] > 70
                 /\ application.status = "manual_review"
                      <=> (30 <= application.risk_score[1]
                           /\ application.risk_score[1] <= 70)]_vars

\* a create has returned an application with score 30 in manual review
C2_Witness ==
  /\ response.op = "create"
  /\ response.code = 201
  /\ response.body[1].risk_score = <<30>>
  /\ response.body[1].status = "manual_review"

\* C3: update_status answers 404 for an id that does not exist and 400 for
\* an application whose status is not manual_review, changing nothing; it
\* changes an application only if that application is in manual_review, and
\* then only its status.
C3_UpdateOnlyManualReview ==
  [][response'.op = "update_status"
       => LET id == response'.id
              exists == id \in 1..Len(applications)
          IN  /\ applicants' = applicants
              /\ Len(applications') = Len(applications)
              /\ ~exists => response'.code = 404 /\ applications' = applications
              /\ (exists /\ applications[id].status # "manual_review")
                   => response'.code = 400 /\ applications' = applications
              /\ applications' # applications
                   => /\ exists
                      /\ applications[id].status = "manual_review"
                      /\ response'.code = 200
                      /\ \A i \in 1..Len(applications) :
                           i # id => applications'[i] = applications[i]
                      /\ applications'[id].id = applications[id].id
                      /\ applications'[id].amount = applications[id].amount
                      /\ applications'[id].risk_score = applications[id].risk_score
                      /\ applications'[id].applicant = applications[id].applicant]_vars

\* update_status has moved an application from manual review to approved
C3_Witness ==
  /\ response.op = "update_status"
  /\ response.code = 200
  /\ response.id \in 1..Len(applications)
  /\ applications[response.id].status = "approved"
  /\ applications[response.id].risk_score[1] >= 30

\* C4: no two applicant rows share an e-mail; a create answered 201 adds one
\* applicant row if the e-mail was unseen and none if it existed, leaves the
\* row of that e-mail with the supplied name and phone (an existing row keeps
\* a field the request does not supply), leaves the other rows alone, and
\* links the new application to that row.
C4_OneApplicantPerEmail ==
  [][/\ \A i, j \in 1..Len(applicants') :
          applicants'[i].email = applicants'[j].email => i = j
     /\ \A i \in 1..Len(applications') :
          \E j \in 1..Len(applicants') : applicants'[j].id = applications'[i].applicant
     /\ (response'.op = "create" /\ response'.code = 201)
          => LET given == response'.data.applicant
                 existed == \E i \in 1..Len(applicants) :
                              applicants[i].email = given.email
             IN  /\ Len(applicants') = Len(applicants) + (IF existed THEN 0 ELSE 1)
                 /\ \A i \in 1..Len(applicants) :
                      /\ applicants'[i].id = applicants[i].id
                      /\ applicants'[i].email = applicants[i].email
                      /\ applicants[i].email # given.email
                           => applicants'[i] = applicants[i]
                      /\ (applicants[i].email = given.email /\ "name" \notin DOMAIN given)
                           => applicants'[i].name = applicants[i].name
                      /\ (applicants[i].email = given.email /\ "phone" \notin DOMAIN given)
                           => applicants'[i].phone = applicants[i].phone
                 /\ \E i \in 1..Len(applicants') :
                      /\ applicants'[i].email = given.email
                      /\ "name" \in DOMAIN given => applicants'[i].name = given.name
                      /\ "phone" \in DOMAIN given => applicants'[i].phone = given.phone
                      /\ applications'[Len(applications')].applicant = applicants'[i].id
                 /\ \A i \in 1..Len(applications) :
                      applications'[i].applicant = applications[i].applicant]_vars

\* two applications of one applicant, the second submitted under another
\* name than the one the first was scored with
C4_Witness ==
  /\ Len(applications) = 2
  /\ Len(applicants) = 1
  /\ applications[1].applicant = applications[2].applicant
  /\ response.op = "create"
  /\ response.code = 201
  /\ response.id = 2
  /\ applicants[1].name = "Ann Lee"
  /\ use_mock
  /\ applications[1].risk_score # applications[2].risk_score

\* C5: no committed application has status pending.
C5_NoPendingStored ==
  \A i \in 1..Len(applications) : applications[i].status # "pending"

\* C6: once an update_status call on an application has succeeded, every
\* later update_status call on it is answered 400.
C6_StatusMutatedAtMostOnce ==
  [][(response'.op = "update_status"
      /\ response'.id \in 1..Len(updated)
      /\ updated[response'.id])
       => response'.code = 400]_vars

\* C7: no committed application has an amount below the minimum of 100, and
\* no create whose amount is below it is answered 201.
C7_AmountBelowMinimumRejected ==
  /\ \A i \in 1..Len(applications) : applications[i].amount >= MinAmount
  /\ (response.op = "create" /\ response.code = 201)
       => response.data.amount >= MinAmount

\* C8: the risk score of every committed application is null or in 0..100.
C8_RiskScoreInRange ==
  \A i \in 1..Len(applications) :
    \/ applications[i].risk_score = Null
    \/ applications[i].risk_score[1] \in 0..100

ScoresCompared == study.scoreA # <<>> /\ study.scoreB # <<>>
ScoresInRange ==
  /\ study.scoreA # <<>> => study.scoreA[1] \in 0..100
  /\ study.scoreB # <<>> => study.scoreB[1] \in 0..100

\* C10 as stated: two calls of the mock strategy with the same e-mail and
\* the same amount return the same score, whatever the name and phone, and
\* every score is in 0..100.
C10_SameEmailAmountSameScore ==
  /\ ScoresInRange
  /\ (/\ ScoresCompared
      /\ study.a[1].applicant_data.email = study.b[1].applicant_data.email
      /\ study.a[1].loan_amount = study.b[1].loan_amount)
       => study.scoreA = study.scoreB

\* C10 amended: two calls of the mock strategy with the same e-mail, the
\* same amount and the same name return the same score, whatever the phone
\* and whatever calls were made in between, and every score is in 0..100.
C10_SameEmailAmountNameSameScore ==
  /\ ScoresInRange
  /\ (/\ ScoresCompared
      /\ study.a[1].applicant_data.email = study.b[1].applicant_data.email
      /\ study.a[1].loan_amount = study.b[1].loan_amount
      /\ study.a[1].applicant_data.name = study.b[1].applicant_data.name)
       => study.scoreA = study.scoreB

\* two calls that differ in the phone alone have returned the same score
C10_Witness ==
  /\ ScoresCompared
  /\ study.a[1].applicant_data.email = study.b[1].applicant_data.email
  /\ study.a[1].loan_amount = study.b[1].loan_amount
  /\ study.a[1].applicant_data.name = study.b[1].applicant_data.name
  /\ study.a[1].applicant_data.phone # study.b[1].applicant_data.phone
  /\ study.scoreA = study.scoreB
====
